---- MODULE Spec2Model ----
(***************************************************************************)
(* Model of homework.py: a bot that polls the homework-review API and      *)
(* relays status changes and failures to one Telegram chat.                *)
(*                                                                         *)
(* The state is main()'s position (pc), the environment read at import     *)
(* (tokens), main()'s locals (current_timestamp, status_message_old,       *)
(* message_error_old, status_message, error) and three observation         *)
(* variables that record what the program did: cur (the polling cycle in   *)
(* progress or just finished), prev (the cycle before it) and lastSent     *)
(* (the text of the latest notification of each kind, and the kinds whose  *)
(* latest notification the bot failed to deliver).                         *)
(*                                                                         *)
(* String literals of the source are Russian; they are transliterated to   *)
(* ASCII here, one literal of the model per literal of the source.         *)
(***************************************************************************)
EXTENDS Integers, Sequences, FiniteSets, TLC

VARIABLES pc, tokens, current_timestamp, status_message_old,
          message_error_old, status_message, error, cur, prev, lastSent

vars == <<pc, tokens, current_timestamp, status_message_old,
          message_error_old, status_message, error, cur, prev, lastSent>>

----------------------------------------------------------------------------
(* Python values, tagged by type.                                          *)

PyNone == [t |-> "NoneType"]
PyInt(n) == [t |-> "int", i |-> n]
PyStr(s) == [t |-> "str", s |-> s]
PyList(l) == [t |-> "list", l |-> l]
PyDict(d) == [t |-> "dict", d |-> d]

\* type(v) as an f-string prints it
PyType(v) == "<class '" \o v.t \o "'>"

\* bool(v) for the values an environment variable can have
Truthy(v) == v.t = "str" /\ v.s # ""

\* f'{v}' for None and strings
Fmt(v) == IF v.t = "str" THEN v.s ELSE "None"

\* a raised exception, and the two ways a call ends
Exc(type, msg) == [type |-> type, msg |-> msg]
Raise(type, msg) == [raised |-> TRUE, exc |-> Exc(type, msg)]
Return(v) == [raised |-> FALSE, value |-> v]

\* str(exception): KeyError prints the repr of its argument
ExcStr(e) == IF e.type = "KeyError" THEN "'" \o e.msg \o "'" ELSE e.msg

----------------------------------------------------------------------------
(* Bounds and input sets.                                                  *)

\* longest homeworks list the API returns in the model
MaxHomeworks == 2

Names == {"hw1"}
Statuses == {"approved", "reviewing", "rejected", "lost"}
Dates == {1000, 2000}
StatusCodes == {200, 503}

\* submission records: complete ones, one without each required key
Records ==
    {[homework_name |-> n, status |-> s] : n \in Names, s \in Statuses}
    \cup {[status |-> "approved"], [homework_name |-> "hw1"]}

\* the records that follow the most recent one in a list
OlderRecords == {[homework_name |-> "hw0", status |-> "approved"]}

\* the lists the API returns: empty, or a record followed by older ones
HomeworkLists ==
    {<<>>} \cup
    {<<r>> \o older :
        r \in Records,
        older \in UNION {[1..n -> OlderRecords] : n \in 0..(MaxHomeworks - 1)}}

\* bodies response.json() can return
Bodies ==
    {PyList(<<>>), PyDict(<<>>)}
    \cup {PyDict([current_date |-> PyInt(1000)])}
    \cup {PyDict([homeworks |-> h]) : h \in {PyList(<<>>), PyDict(<<>>)}}
    \cup {PyDict([homeworks |-> h, current_date |-> PyStr("2000")]) :
            h \in {PyList(<<>>), PyDict(<<>>)}}
    \cup {PyDict([homeworks |-> PyDict(<<>>), current_date |-> PyInt(1000)])}
    \cup {PyDict([homeworks |-> PyList(h), current_date |-> PyInt(d)]) :
            h \in HomeworkLists, d \in Dates}

\* text of the UnboundLocalError (its wording varies with the interpreter)
UnboundTexts ==
    {"local variable 'response' referenced before assignment"}

\* what requests.get does: raises, or returns a response whose json() returns
\* a body or raises
HttpOutcomes ==
    {[kind |-> "transport", unbound |-> u] : u \in UnboundTexts}
    \cup {[kind |-> "response", status_code |-> c, json |-> Return(PyNone)] :
            c \in StatusCodes \ {200}}
    \cup {[kind |-> "response", status_code |-> 200, json |-> Return(b)] :
            b \in Bodies}
    \cup {[kind |-> "response", status_code |-> 200,
           json |-> Raise("JSONDecodeError",
                          "Expecting value: line 1 column 1 (char 0)")]}

\* values os.getenv can give a token: unset, set to nothing, set
TokenValues == {PyNone, PyStr(""), PyStr("secret")}

----------------------------------------------------------------------------
(* Module-level configuration.                                             *)

TOKEN_NAMES == {"PRACTICUM_TOKEN", "TELEGRAM_TOKEN", "TELEGRAM_CHAT_ID"}
RETRY_TIME == 300
HTTP_OK == 200
ENDPOINT == "https://practicum.yandex.ru/api/user_api/homework_statuses/"

\* f'{HEADERS}': the repr of the one-entry dict
HEADERS == "{'Authorization': 'OAuth " \o Fmt(tokens["PRACTICUM_TOKEN"]) \o "'}"

HOMEWORK_VERDICTS ==
    [approved |-> "Rabota proverena: rev'yueru vsyo ponravilos'. Ura!",
     reviewing |-> "Rabota vzyata na proverku rev'yuerom.",
     rejected |-> "Rabota proverena: u rev'yuera est' zamechaniya."]

\* the exception classes "except Exception" catches
IncorrectResponseServerError_Bases == {"Exception"}

ExceptionClasses ==
    {"Exception", "TypeError", "KeyError", "IndexError", "UnboundLocalError",
     "JSONDecodeError", "TelegramError"}
    \cup (IF "Exception" \in IncorrectResponseServerError_Bases
          THEN {"IncorrectResponseServerError"} ELSE {})

----------------------------------------------------------------------------
(* The four functions.                                                     *)

\* what bot.send_message does: returns, or raises a telegram error
BotOutcomes == {Return(PyNone), Raise("TelegramError", "Unauthorized")}

SendCatchesNothing(e) == FALSE

\* "except Exception" in send_message
SendCatches(e) == e.type \in ExceptionClasses

send_message_reraises(message, bot) ==
    IF bot.raised
    THEN [raised |-> TRUE, exc |-> bot.exc, delivered |-> FALSE]
    ELSE [raised |-> FALSE, delivered |-> TRUE, log |-> "info"]

\* send_message(bot, message): the bot's failure is logged, not re-raised
send_message(message, bot) ==
    IF bot.raised
    THEN IF SendCatches(bot.exc)
         THEN [raised |-> FALSE, delivered |-> FALSE, log |-> "error"]
         ELSE [raised |-> TRUE, exc |-> bot.exc, delivered |-> FALSE]
    ELSE [raised |-> FALSE, delivered |-> TRUE, log |-> "info"]

\* get_api_answer(current_timestamp): in the except clause the f-string reads
\* response.status_code while response is unbound, so building the message
\* raises UnboundLocalError before IncorrectResponseServerError is created
get_api_answer(timestamp, http) ==
    IF http.kind = "transport"
    THEN Raise("UnboundLocalError", http.unbound)
    ELSE IF http.status_code # HTTP_OK
    THEN Raise("IncorrectResponseServerError",
               "Otvet ot servera nekorrektnyj, kod: "
               \o ToString(http.status_code)
               \o ", dannye avtorizacii " \o HEADERS
               \o "adres api " \o ENDPOINT
               \o ", metka daty v Unix " \o ToString(timestamp))
    ELSE http.json

check_response_date_first(response) ==
    IF response.t # "dict"
    THEN Raise("TypeError",
               "V otvete API ozhidalsya slovar', poluchen " \o PyType(response))
    ELSE IF "current_date" \notin DOMAIN response.d
    THEN Raise("KeyError", "V otvete API otsutstvuet klyuch current_date")
    ELSE IF "homeworks" \notin DOMAIN response.d
    THEN Raise("KeyError", "V otvete API otsutstvuet klyuch homeworks")
    ELSE IF response.d.current_date.t # "int"
    THEN Raise("TypeError",
               "V otvete API po klyuchu \"current_date\" dolzhno byt' celoe chislo, "
               \o "sejchas tam " \o PyType(response.d.current_date))
    ELSE IF response.d.homeworks.t # "list"
    THEN Raise("TypeError", "'dict' object is not callable")
    ELSE Return(response.d.homeworks)

check_response_wrong_class(response) ==
    IF response.t # "dict"
    THEN Raise("TypeError",
               "V otvete API ozhidalsya slovar', poluchen " \o PyType(response))
    ELSE IF "homeworks" \notin DOMAIN response.d
    THEN Raise("TypeError", "V otvete API otsutstvuet klyuch homeworks")
    ELSE IF "current_date" \notin DOMAIN response.d
    THEN Raise("TypeError", "V otvete API otsutstvuet klyuch current_date")
    ELSE IF response.d.current_date.t # "int"
    THEN Raise("TypeError",
               "V otvete API po klyuchu \"current_date\" dolzhno byt' celoe chislo, "
               \o "sejchas tam " \o PyType(response.d.current_date))
    ELSE IF response.d.homeworks.t # "list"
    THEN Raise("TypeError", "'dict' object is not callable")
    ELSE Return(response.d.homeworks)

\* check_response(response): the last message calls response(...), a dict,
\* so the TypeError raised there is the interpreter's
check_response(response) ==
    IF response.t # "dict"
    THEN Raise("TypeError",
               "V otvete API ozhidalsya slovar', poluchen " \o PyType(response))
    ELSE IF "homeworks" \notin DOMAIN response.d
    THEN Raise("KeyError", "V otvete API otsutstvuet klyuch homeworks")
    ELSE IF "current_date" \notin DOMAIN response.d
    THEN Raise("KeyError", "V otvete API otsutstvuet klyuch current_date")
    ELSE IF response.d.current_date.t # "int"
    THEN Raise("TypeError",
               "V otvete API po klyuchu \"current_date\" dolzhno byt' celoe chislo, "
               \o "sejchas tam " \o PyType(response.d.current_date))
    ELSE IF response.d.homeworks.t # "list"
    THEN Raise("TypeError", "'dict' object is not callable")
    ELSE Return(response.d.homeworks)

parse_status_unknown_as_key_error(homework) ==
    IF "homework_name" \notin DOMAIN homework
    THEN Raise("KeyError", "V otvete API ne najden klyuch homework_name")
    ELSE IF "status" \notin DOMAIN homework
    THEN Raise("KeyError", "V otvete API ne najden klyuch status")
    ELSE IF homework.status \notin DOMAIN HOMEWORK_VERDICTS
    THEN Raise("KeyError", "V otvete API ne najden klyuch status")
    ELSE Return("Izmenilsya status proverki raboty \"" \o homework.homework_name
                \o "\". " \o HOMEWORK_VERDICTS[homework.status])

\* parse_status(homework)
parse_status(homework) ==
    IF "homework_name" \notin DOMAIN homework
    THEN Raise("KeyError", "V otvete API ne najden klyuch homework_name")
    ELSE IF "status" \notin DOMAIN homework
    THEN Raise("KeyError", "V otvete API ne najden klyuch status")
    ELSE IF homework.status \notin DOMAIN HOMEWORK_VERDICTS
    THEN Raise("Exception",
               homework.status \o " - takoj status otsutstvuet v spiske")
    ELSE Return("Izmenilsya status proverki raboty \"" \o homework.homework_name
                \o "\". " \o HOMEWORK_VERDICTS[homework.status])

check_tokens_any == \E name \in TOKEN_NAMES : Truthy(tokens[name])

\* check_tokens(): every name of TOKEN_NAMES has a truthy value
check_tokens == \A name \in TOKEN_NAMES : Truthy(tokens[name])

----------------------------------------------------------------------------
(* main(): the polling loop.                                               *)

\* line 161
INITIAL_TIMESTAMP == 0

\* the record of a cycle that has not begun
NoCycle ==
    [from_date |-> 0, calls |-> <<>>, http |-> "", validated |-> FALSE,
     response_date |-> <<>>, empty |-> FALSE, status |-> <<>>, exc |-> <<>>,
     raised_by |-> "", diag |-> <<>>, sent |-> <<>>, start_status |-> "",
     start_error |-> "", uncaught |-> FALSE, slept |-> 0, lacks |-> {}]

\* the texts of the status notifications among the entries of sent
RECURSIVE StatusTexts(_)
StatusTexts(sent) ==
    IF sent = <<>> THEN <<>>
    ELSE IF Head(sent).kind = "status"
         THEN <<Head(sent).text>> \o StatusTexts(Tail(sent))
         ELSE StatusTexts(Tail(sent))

\* what is kept of a cycle once the next one begins
Summary(c) ==
    [from_date |-> c.from_date, calls |-> c.calls, status |-> c.status,
     failed |-> c.exc # <<>>,
     status_sent |-> StatusTexts(c.sent), start_status |-> c.start_status]

\* the keys check_response requires that a mapping does not have
Lacking(response) ==
    IF response.t = "dict"
    THEN {"homeworks", "current_date"} \ DOMAIN response.d
    ELSE {}

\* the body of the try block up to parse_status: the calls made, in order,
\* and how it ends (the status message, or the exception raised)
TryBlock(timestamp, http) ==
    LET response == get_api_answer(timestamp, http)
        base == [calls |-> <<"get_api_answer">>, raised_by |-> "get_api_answer",
                 result |-> response, validated |-> FALSE,
                 response_date |-> <<>>, empty |-> FALSE, lacks |-> {}]
    IN  IF response.raised THEN base
        ELSE
        LET homeworks == check_response(response.value)
            checked == [base EXCEPT
                          !.calls = <<"get_api_answer", "check_response">>,
                          !.raised_by = "check_response",
                          !.result = homeworks,
                          !.lacks = Lacking(response.value)]
        IN  IF homeworks.raised THEN checked
            ELSE
            LET valid == [checked EXCEPT
                            !.validated = TRUE,
                            !.response_date =
                                <<response.value.d.current_date.i>>,
                            !.empty = (Len(homeworks.value.l) = 0)]
            IN  IF Len(homeworks.value.l) = 0
                THEN [valid EXCEPT
                        !.raised_by = "main",
                        !.result = Raise("IndexError",
                                         "list index out of range")]
                ELSE [valid EXCEPT
                        !.calls = <<"get_api_answer", "check_response",
                                    "parse_status">>,
                        !.raised_by = "parse_status",
                        !.result = parse_status(homeworks.value.l[1])]

MainCatchesServerErrorOnly(e) == e.type = "IncorrectResponseServerError"

\* "except Exception as error" in main
MainCatches(e) == e.type \in ExceptionClasses

NeedsSendAlways(old, message) == TRUE

NeedsSendFirstOnly(old, message) == old = ""

NeedsSendOnceSet(old, message) == old # "" /\ old # message

\* lines 180 and 187: a text is sent when it differs from the last one sent
NeedsSend(old, message) == old # message

RememberNothing(old, message) == old

RememberFirst(old, message) == IF old = "" THEN message ELSE old

\* lines 182 and 189: the text just passed to send_message becomes the last
\* one sent
Remember(old, message) == message

DiagnosticWithoutText(e) == "Sboj v rabote programmy: " \o e.type

\* line 185
Diagnostic(e) == "Sboj v rabote programmy: " \o ExcStr(e)

NextPcWithoutFinally(from) ==
    CASE from = "compare" -> "sleep"
      [] from = "except" -> "try"
      [] from = "sleep" -> "try"

\* where control goes when a block of the loop ends: the try block's and the
\* handler's end both reach the finally clause, whose sleep ends the cycle
NextPc(from) ==
    CASE from = "compare" -> "sleep"
      [] from = "except" -> "sleep"
      [] from = "sleep" -> "try"

Sent(kind, text, s) == [kind |-> kind, text |-> text, delivered |-> s.delivered]

\* lastSent once send_message was called with text: the text, and whether
\* the bot delivered it
Noted(last, kind, text, s) ==
    [last EXCEPT ![kind] = text,
                 !.undelivered = IF s.delivered THEN @ \ {kind}
                                 ELSE @ \cup {kind}]

Init ==
    /\ pc = "startup"
    /\ tokens \in [TOKEN_NAMES -> TokenValues]
    /\ current_timestamp = 0
    /\ status_message_old = ""
    /\ message_error_old = ""
    /\ status_message = ""
    /\ error = <<>>
    /\ cur = NoCycle
    /\ prev = Summary(NoCycle)
    /\ lastSent = [status |-> "", error |-> "", undelivered |-> {}]

\* lines 151-163; Bot(token=TELEGRAM_TOKEN) is taken to return a client
Startup ==
    /\ pc = "startup"
    /\ IF ~check_tokens
       THEN /\ pc' = "exited"
            /\ UNCHANGED <<current_timestamp, status_message_old,
                           message_error_old>>
       ELSE /\ pc' = "try"
            /\ current_timestamp' = INITIAL_TIMESTAMP
            /\ status_message_old' = ""
            /\ message_error_old' = ""
    /\ UNCHANGED <<tokens, status_message, error, cur, prev, lastSent>>

\* lines 165-178
Try ==
    /\ pc = "try"
    /\ \E http \in HttpOutcomes :
         LET t == TryBlock(current_timestamp, http)
             begun == [NoCycle EXCEPT
                         !.from_date = current_timestamp,
                         !.calls = t.calls,
                         !.http = IF http.kind = "transport" THEN "transport"
                                  ELSE ToString(http.status_code),
                         !.validated = t.validated,
                         !.response_date = t.response_date,
                         !.empty = t.empty,
                         !.lacks = t.lacks,
                         !.start_status = status_message_old,
                         !.start_error = message_error_old]
         IN  /\ prev' = Summary(cur)
             /\ IF ~t.result.raised
                THEN /\ status_message' = t.result.value
                     /\ cur' = [begun EXCEPT !.status = <<t.result.value>>]
                     /\ error' = error
                     /\ pc' = "compare"
                ELSE /\ status_message' = status_message
                     /\ cur' = [begun EXCEPT
                                  !.exc = <<t.result.exc>>,
                                  !.raised_by = t.raised_by,
                                  !.uncaught = ~MainCatches(t.result.exc)]
                     /\ error' = IF MainCatches(t.result.exc)
                                 THEN <<t.result.exc>> ELSE <<>>
                     /\ pc' = IF MainCatches(t.result.exc)
                              THEN "except" ELSE "sleep"
    /\ UNCHANGED <<tokens, current_timestamp, status_message_old,
                   message_error_old, lastSent>>

CompareResetsError ==
    /\ pc = "compare"
    /\ IF NeedsSend(status_message_old, status_message)
       THEN \E bot \in BotOutcomes :
              LET s == send_message(status_message, bot)
                  called == [cur EXCEPT
                               !.calls = Append(@, "send_message"),
                               !.sent = Append(@, Sent("status",
                                                       status_message, s))]
              IN  /\ lastSent' = Noted(lastSent, "status", status_message, s)
                  /\ IF ~s.raised
                     THEN /\ status_message_old' =
                                 Remember(status_message_old, status_message)
                          /\ cur' = called
                          /\ error' = error
                          /\ pc' = NextPc("compare")
                     ELSE /\ status_message_old' = status_message_old
                          /\ cur' = [called EXCEPT
                                       !.exc = <<s.exc>>,
                                       !.raised_by = "send_message",
                                       !.uncaught = ~MainCatches(s.exc)]
                          /\ error' = IF MainCatches(s.exc)
                                      THEN <<s.exc>> ELSE <<>>
                          /\ pc' = IF MainCatches(s.exc)
                                   THEN "except" ELSE "sleep"
       ELSE /\ pc' = NextPc("compare")
            /\ UNCHANGED <<status_message_old, cur, error, lastSent>>
    /\ message_error_old' = ""
    /\ UNCHANGED <<tokens, current_timestamp, status_message, prev>>

\* lines 180-182, then the else clause (a log line)
Compare ==
    /\ pc = "compare"
    /\ IF NeedsSend(status_message_old, status_message)
       THEN \E bot \in BotOutcomes :
              LET s == send_message(status_message, bot)
                  called == [cur EXCEPT
                               !.calls = Append(@, "send_message"),
                               !.sent = Append(@, Sent("status",
                                                       status_message, s))]
              IN  /\ lastSent' = Noted(lastSent, "status", status_message, s)
                  /\ IF ~s.raised
                     THEN /\ status_message_old' =
                                 Remember(status_message_old, status_message)
                          /\ cur' = called
                          /\ error' = error
                          /\ pc' = NextPc("compare")
                     ELSE /\ status_message_old' = status_message_old
                          /\ cur' = [called EXCEPT
                                       !.exc = <<s.exc>>,
                                       !.raised_by = "send_message",
                                       !.uncaught = ~MainCatches(s.exc)]
                          /\ error' = IF MainCatches(s.exc)
                                      THEN <<s.exc>> ELSE <<>>
                          /\ pc' = IF MainCatches(s.exc)
                                   THEN "except" ELSE "sleep"
       ELSE /\ pc' = NextPc("compare")
            /\ UNCHANGED <<status_message_old, cur, error, lastSent>>
    /\ UNCHANGED <<tokens, current_timestamp, message_error_old,
                   status_message, prev>>

\* lines 184-189; error is unbound again when the clause ends
Except ==
    /\ pc = "except"
    /\ LET message == Diagnostic(error[1])
           noted == [cur EXCEPT !.diag = <<message>>]
       IN  IF NeedsSend(message_error_old, message)
           THEN \E bot \in BotOutcomes :
                  LET s == send_message(message, bot)
                      called == [noted EXCEPT
                                   !.calls = Append(@, "send_message"),
                                   !.sent = Append(@, Sent("error",
                                                           message, s))]
                  IN  /\ lastSent' = Noted(lastSent, "error", message, s)
                      /\ IF ~s.raised
                         THEN /\ message_error_old' =
                                     Remember(message_error_old, message)
                              /\ cur' = called
                         ELSE /\ message_error_old' = message_error_old
                              /\ cur' = [called EXCEPT !.uncaught = TRUE]
           ELSE /\ cur' = noted
                /\ UNCHANGED <<message_error_old, lastSent>>
    /\ error' = <<>>
    /\ pc' = NextPc("except")
    /\ UNCHANGED <<tokens, current_timestamp, status_message_old,
                   status_message, prev>>

\* lines 193-194: time.sleep(RETRY_TIME); an exception no clause caught
\* leaves main() after it
Sleep ==
    /\ pc = "sleep"
    /\ cur' = [cur EXCEPT !.calls = Append(@, "sleep"),
                          !.slept = @ + RETRY_TIME]
    /\ pc' = IF cur.uncaught THEN "crashed" ELSE NextPc("sleep")
    /\ UNCHANGED <<tokens, current_timestamp, status_message_old,
                   message_error_old, status_message, error, prev, lastSent>>

Next == Startup \/ Try \/ Compare \/ Except \/ Sleep

Spec == Init /\ [][Next]_vars

\* each blocking call and the sleep return
LiveSpec ==
    /\ Spec
    /\ WF_vars(Startup) /\ WF_vars(Try) /\ WF_vars(Compare)
    /\ WF_vars(Except) /\ WF_vars(Sleep)

----------------------------------------------------------------------------
(* Properties.                                                             *)

PollingPcs == {"try", "compare", "except", "sleep"}

Count(seq, x) == Cardinality({i \in DOMAIN seq : seq[i] = x})

\* the try block and its handlers are over for the cycle recorded in cur
CycleDone == cur.calls # <<>> /\ pc \in {"sleep", "try", "crashed"}

\* cur and prev record two consecutive cycles that both fetched, validated
\* and formatted a status
TwoFormatted ==
    /\ CycleDone
    /\ cur.status # <<>> /\ cur.exc = <<>>
    /\ prev.status # <<>> /\ ~prev.failed

\* C1: of two consecutive successful cycles that format the same status
\* string s, the second never calls send_message, and the first calls it
\* exactly once, with s, when s differs from the last-sent status text it
\* started with, and not at all otherwise.
C1_SameStatusSentOnce ==
    (TwoFormatted /\ prev.status = cur.status) =>
        /\ cur.sent = <<>>
        /\ Count(cur.calls, "send_message") = 0
        /\ prev.status_sent =
             IF prev.start_status # prev.status[1] THEN prev.status ELSE <<>>
        /\ Count(prev.calls, "send_message") = Len(prev.status_sent)

C1_Witness ==
    /\ TwoFormatted /\ pc = "try"
    /\ prev.status = cur.status
    /\ prev.status_sent = prev.status

\* C2: of two consecutive successful cycles that format different status
\* strings s1 then s2, s1 differing from the last-sent status text before the
\* first, each calls send_message exactly once: the first with s1, the second
\* with s2.
C2_DifferentStatusSentTwice ==
    (/\ TwoFormatted
     /\ prev.status # cur.status
     /\ prev.start_status # prev.status[1]) =>
        /\ prev.status_sent = prev.status
        /\ Count(prev.calls, "send_message") = 1
        /\ Len(cur.sent) = 1
        /\ cur.sent[1].kind = "status"
        /\ cur.sent[1].text = cur.status[1]
        /\ Count(cur.calls, "send_message") = 1

C2_Witness ==
    /\ TwoFormatted /\ pc = "try"
    /\ prev.status # cur.status
    /\ prev.start_status # prev.status[1]
    /\ Len(cur.sent) = 1

\* C3: over the whole run, every notification send_message is called with
\* differs in text from the notification of the same kind (status, error)
\* sent before it.
C3_NoRepeatedNotification ==
    [][Len(cur'.sent) = Len(cur.sent) + 1 =>
         LET e == cur'.sent[Len(cur'.sent)]
         IN  e.text # lastSent[e.kind]]_vars

C3_Witness ==
    /\ cur.sent # <<>>
    /\ cur.sent[1].kind = "error"
    /\ cur.start_error # ""
    /\ lastSent.status # ""

\* C4: a cycle whose fetch succeeds and whose validated homeworks list is
\* empty calls send_message not at all and leaves both last-sent texts as
\* they were.
C4_EmptyHomeworksSilent ==
    (CycleDone /\ cur.validated /\ cur.empty) =>
        /\ cur.sent = <<>>
        /\ Count(cur.calls, "send_message") = 0
        /\ status_message_old = cur.start_status
        /\ message_error_old = cur.start_error

\* C5: the cursor is 0 at the first fetch, and once a cycle has fetched and
\* validated a response the cursor equals that response's current_date, the
\* from_date of the next fetch.
C5_CursorFollowsResponse ==
    /\ (pc = "try" /\ cur.calls = <<>>) => current_timestamp = 0
    /\ (CycleDone /\ cur.validated) =>
           current_timestamp = cur.response_date[1]

\* C6: a cycle in which an exception is raised is handled in the loop: the
\* diagnostic text is built from the exception, it is sent if and only if it
\* differs from the last-sent error text, it becomes the last-sent error
\* text, the cursor keeps the value the fetch used, the cycle sleeps and the
\* next cycle fetches with the same cursor.
C6_FailureHandledInLoop ==
    /\ (CycleDone /\ cur.exc # <<>>) =>
          /\ pc # "crashed" /\ ~cur.uncaught
          /\ cur.diag = <<"Sboj v rabote programmy: " \o ExcStr(cur.exc[1])>>
          /\ Len(cur.sent) = IF cur.start_error # cur.diag[1] THEN 1 ELSE 0
          /\ Count(cur.calls, "send_message") = Len(cur.sent)
          /\ \A i \in DOMAIN cur.sent :
                cur.sent[i].kind = "error" /\ cur.sent[i].text = cur.diag[1]
          /\ message_error_old = cur.diag[1]
          /\ current_timestamp = cur.from_date
          /\ pc = "try" => cur.calls[Len(cur.calls)] = "sleep"
    /\ (prev.failed /\ cur.calls # <<>>) =>
          /\ prev.calls[Len(prev.calls)] = "sleep"
          /\ cur.from_date = prev.from_date

C6_Witness ==
    /\ prev.failed /\ Count(prev.calls, "send_message") = 1
    /\ CycleDone /\ pc = "try"
    /\ cur.http = "503" /\ cur.exc # <<>>
    /\ cur.sent # <<>>

\* C7: when the HTTP request raises a transport-level exception,
\* get_api_answer raises IncorrectResponseServerError and nothing else.
C7_TransportErrorIsServerError ==
    cur.http = "transport" =>
        /\ cur.exc # <<>>
        /\ cur.raised_by = "get_api_answer"
        /\ cur.exc[1].type = "IncorrectResponseServerError"

\* C8: with any of the three credentials unset, main() ends at startup and
\* neither get_api_answer nor send_message is ever called; with all three
\* set, main() goes from startup into the polling loop.
C8_StartupGate ==
    /\ (\E name \in TOKEN_NAMES : tokens[name] = PyNone) =>
          /\ pc \in {"startup", "exited"}
          /\ cur.calls = <<>> /\ prev.calls = <<>>
          /\ lastSent = [status |-> "", error |-> "", undelivered |-> {}]
    /\ ((\A name \in TOKEN_NAMES : Truthy(tokens[name])) /\ pc # "startup") =>
          pc \in PollingPcs

C8_Witness ==
    /\ pc = "exited"
    /\ tokens["TELEGRAM_CHAT_ID"] = PyNone
    /\ Truthy(tokens["PRACTICUM_TOKEN"]) /\ Truthy(tokens["TELEGRAM_TOKEN"])

\* C9: unless main() ended at startup, no exception ends the loop: the top
\* of the loop is reached again and again, and get_api_answer is called
\* again and again (after every cycle another one begins).
C9_LoopNeverTerminates ==
    /\ []<>(pc \in {"exited", "try"})
    /\ []<>(pc \in {"exited", "compare", "except"})

C9_Witness ==
    /\ prev.failed
    /\ pc = "except" /\ cur.calls[1] = "get_api_answer"
    /\ cur.raised_by = "main"

\* C10: a cycle sleeps exactly once, as its last step, so after any
\* send_message of the cycle; every cycle that a later fetch follows ended
\* with that sleep.
C10_OneSleepEndsCycle ==
    /\ \A i \in DOMAIN cur.calls :
          cur.calls[i] = "sleep" => i = Len(cur.calls)
    /\ \A i \in DOMAIN prev.calls :
          prev.calls[i] = "sleep" => i = Len(prev.calls)
    /\ prev.calls # <<>> => prev.calls[Len(prev.calls)] = "sleep"
    /\ (pc = "try" /\ cur.calls # <<>>) =>
          /\ cur.calls[Len(cur.calls)] = "sleep"
          /\ cur.slept = 300

C10_Witness ==
    /\ prev.failed
    /\ Count(prev.calls, "send_message") = 1
    /\ prev.calls[Len(prev.calls)] = "sleep"
    /\ cur.calls # <<>> /\ cur.status # <<>>

\* C11: a failure of the bot inside send_message does not reach main(): the
\* step that makes the failed call ends like a successful one (control goes
\* on to the sleep, no exception is pending, the text becomes the last-sent
\* text of its kind, the other last-sent text and the cursor are untouched),
\* and a text whose notification failed is not passed to send_message again
\* while it is the latest text of its kind.
C11_SendFailureSwallowed ==
    [][Len(cur'.sent) = Len(cur.sent) + 1 =>
         LET e == cur'.sent[Len(cur'.sent)]
         IN  /\ ~e.delivered =>
                  /\ pc' = "sleep"
                  /\ ~cur'.uncaught
                  /\ cur'.exc = cur.exc
                  /\ error' = <<>>
                  /\ current_timestamp' = current_timestamp
                  /\ e.kind = "status" =>
                        /\ status_message_old' = e.text
                        /\ message_error_old' = message_error_old
                  /\ e.kind = "error" =>
                        /\ message_error_old' = e.text
                        /\ status_message_old' = status_message_old
             /\ e.kind \in lastSent.undelivered => e.text # lastSent[e.kind]]_vars

C11_Witness ==
    /\ "error" \in lastSent.undelivered
    /\ ~prev.failed /\ prev.calls # <<>>
    /\ CycleDone /\ pc = "try"
    /\ cur.diag = <<lastSent.error>>
    /\ cur.sent = <<>>

\* C12: a cycle whose response is a mapping without the key homeworks or
\* without the key current_date fails in check_response with KeyError, does
\* not call parse_status and sends no status notification; and a cycle that
\* calls parse_status has called get_api_answer and check_response before
\* it, in that order, and both returned.
C12_MissingKeyStopsBeforeFormatter ==
    /\ cur.lacks # {} =>
          /\ cur.exc # <<>>
          /\ cur.exc[1].type = "KeyError"
          /\ cur.raised_by = "check_response"
          /\ Count(cur.calls, "parse_status") = 0
          /\ cur.status = <<>>
          /\ StatusTexts(cur.sent) = <<>>
    /\ Count(cur.calls, "parse_status") > 0 =>
          /\ Len(cur.calls) >= 3
          /\ cur.calls[1] = "get_api_answer"
          /\ cur.calls[2] = "check_response"
          /\ cur.calls[3] = "parse_status"
          /\ Count(cur.calls, "parse_status") = 1
          /\ cur.validated /\ cur.lacks = {}
          /\ cur.raised_by \in {"", "parse_status"}

C12_Witness ==
    /\ cur.lacks = {"current_date"}
    /\ CycleDone /\ pc = "try"
    /\ cur.sent # <<>>
    /\ prev.status # <<>>

\* the checks of check_response a value does not pass, each taken alone:
\* 1 a mapping, 2 has homeworks, 3 has current_date, 4 current_date is an
\* integer, 5 homeworks is a list
FailedChecks(b) ==
    {i \in 1..5 :
       CASE i = 1 -> b.t # "dict"
         [] i = 2 -> ~(b.t = "dict" /\ "homeworks" \in DOMAIN b.d)
         [] i = 3 -> ~(b.t = "dict" /\ "current_date" \in DOMAIN b.d)
         [] i = 4 -> ~(/\ b.t = "dict"
                       /\ "current_date" \in DOMAIN b.d
                       /\ b.d.current_date.t = "int")
         [] i = 5 -> ~(/\ b.t = "dict"
                       /\ "homeworks" \in DOMAIN b.d
                       /\ b.d.homeworks.t = "list")}

\* the error class of each check, and the key the two presence checks name
CheckErrorClass ==
    <<"TypeError", "KeyError", "KeyError", "TypeError", "TypeError">>

CheckedKey == <<"", "homeworks", "current_date", "current_date", "homeworks">>

\* C13: for every response body, check_response raises the error of the
\* first of its five checks that the body fails (TypeError, KeyError on
\* homeworks, KeyError on current_date, TypeError, TypeError), and when the
\* body passes all five it returns the value under homeworks unchanged, the
\* empty list included; so does the call made in the cycle.
C13_FirstFailingCheckDecides ==
    /\ \A b \in Bodies :
          LET failed == FailedChecks(b)
              r == check_response(b)
          IN  IF failed = {}
              THEN r = Return(b.d.homeworks)
              ELSE LET first == CHOOSE i \in failed : \A j \in failed : i <= j
                   IN  /\ r.raised
                       /\ r.exc.type = CheckErrorClass[first]
                       /\ first \in {2, 3} =>
                             r.exc.msg = "V otvete API otsutstvuet klyuch "
                                         \o CheckedKey[first]
    /\ cur.lacks = {"homeworks", "current_date"} =>
          /\ cur.raised_by = "check_response"
          /\ cur.exc[1] = Exc("KeyError",
                              "V otvete API otsutstvuet klyuch homeworks")
    /\ (cur.validated /\ cur.empty) => cur.lacks = {}

C13_Witness ==
    /\ cur.lacks = {"homeworks", "current_date"}
    /\ cur.raised_by = "check_response"
    /\ CycleDone
    /\ PyDict([homeworks |-> PyList(<<>>), current_date |-> PyInt(2000)])
          \in {b \in Bodies : FailedChecks(b) = {}}

\* C14: for every submission record, parse_status raises KeyError when
\* homework_name or status is absent, raises the unknown-status error (a
\* plain Exception naming the status) when status is none of approved,
\* reviewing, rejected, and otherwise returns the sentence made of the
\* homework name and the verdict of the status; the call leaves the cursor
\* and both last-sent texts as they were when the cycle began.
C14_ParseStatusContract ==
    /\ \A h \in Records \cup OlderRecords :
          LET r == parse_status(h)
          IN  IF "homework_name" \notin DOMAIN h \/ "status" \notin DOMAIN h
              THEN r.raised /\ r.exc.type = "KeyError"
              ELSE IF h.status \notin {"approved", "reviewing", "rejected"}
              THEN /\ r.raised
                   /\ r.exc = Exc("Exception",
                                  h.status
                                  \o " - takoj status otsutstvuet v spiske")
              ELSE /\ ~r.raised
                   /\ r.value = "Izmenilsya status proverki raboty \""
                                \o h.homework_name \o "\". "
                                \o (CASE h.status = "approved" ->
                                           "Rabota proverena: rev'yueru vsyo ponravilos'. Ura!"
                                      [] h.status = "reviewing" ->
                                           "Rabota vzyata na proverku rev'yuerom."
                                      [] h.status = "rejected" ->
                                           "Rabota proverena: u rev'yuera est' zamechaniya.")
    /\ parse_status([homework_name |-> "hw1", status |-> "approved"]) =
          Return("Izmenilsya status proverki raboty \"hw1\". Rabota proverena: rev'yueru vsyo ponravilos'. Ura!")
    /\ (Count(cur.calls, "parse_status") > 0 /\ pc \in {"compare", "except"}) =>
          /\ status_message_old = cur.start_status
          /\ message_error_old = cur.start_error
          /\ current_timestamp = cur.from_date
          /\ lastSent.status = cur.start_status
          /\ cur.sent = <<>>
          /\ cur.raised_by = "parse_status" =>
                cur.exc[1].type \in {"KeyError", "Exception"}
          /\ cur.raised_by = "" => cur.status = <<status_message>>

C14_Witness ==
    /\ pc = "except"
    /\ cur.raised_by = "parse_status"
    /\ cur.exc[1].type = "Exception"
    /\ cur.start_status # ""

\* C15: in the polling loop status_message_old is the text of the latest
\* status notification passed to send_message (empty before the first), and
\* message_error_old that of the latest error notification; a cycle that
\* fails leaves status_message_old as it found it, and a cycle that succeeds
\* leaves message_error_old as it found it.
C15_LastSentTracksNotifications ==
    /\ pc \in PollingPcs =>
          /\ status_message_old = lastSent.status
          /\ message_error_old = lastSent.error
    /\ (CycleDone /\ cur.exc # <<>>) => status_message_old = cur.start_status
    /\ (CycleDone /\ cur.exc = <<>>) => message_error_old = cur.start_error

C15_Witness ==
    /\ CycleDone /\ pc = "try"
    /\ cur.exc # <<>> /\ cur.sent # <<>>
    /\ cur.start_status # "" /\ cur.start_error # ""
    /\ lastSent.status = cur.start_status

\* C16: successful cycles do not reset the last-sent error text, and failed
\* cycles do not reset the last-sent status text: an error notification sent
\* right after a successful cycle differs from the latest error notification,
\* and a status notification sent right after a failed cycle differs from
\* the latest status notification; the cycles themselves leave the other
\* kind's last-sent text alone.
C16_NoResetByOtherKind ==
    [][/\ Len(cur'.sent) = Len(cur.sent) + 1 =>
            LET e == cur'.sent[Len(cur'.sent)]
            IN  /\ (e.kind = "error" /\ prev.calls # <<>> /\ ~prev.failed) =>
                      e.text # lastSent.error
                /\ (e.kind = "status" /\ prev.failed) =>
                      e.text # lastSent.status
       /\ (pc = "compare" /\ lastSent.error # "") =>
             message_error_old' = lastSent.error
       /\ (pc = "except" /\ lastSent.status # "") =>
             status_message_old' = lastSent.status]_vars

C16_Witness ==
    /\ CycleDone /\ pc = "try"
    /\ prev.calls # <<>> /\ ~prev.failed /\ prev.status_sent # <<>>
    /\ cur.exc # <<>>
    /\ cur.diag = <<lastSent.error>>
    /\ cur.sent = <<>>
    /\ "error" \notin lastSent.undelivered

\* C17: a cycle calls send_message at most once: never a status and an error
\* notification both, never two of one kind.
C17_AtMostOneSendPerCycle ==
    /\ Count(cur.calls, "send_message") <= 1
    /\ Len(cur.sent) = Count(cur.calls, "send_message")
    /\ Count(prev.calls, "send_message") <= 1
    /\ Len(prev.status_sent) <= Count(prev.calls, "send_message")

C17_Witness ==
    /\ CycleDone /\ pc = "try"
    /\ Count(cur.calls, "send_message") = 1
    /\ Count(prev.calls, "send_message") = 1
    /\ cur.sent[1].kind = "status" /\ prev.failed

\* C18: formatted status texts and diagnostic texts are never empty, and as
\* long as no status (error) notification has been sent, a cycle that
\* formats a status (that fails) passes its text to send_message: so the
\* first such cycle after startup always notifies.
C18_FirstOccurrenceNotifies ==
    [][/\ pc = "compare" => status_message # ""
       /\ pc = "except" => Diagnostic(error[1]) # ""
       /\ (pc = "compare" /\ lastSent.status = "") =>
             /\ Len(cur'.sent) = 1
             /\ cur'.sent[1].kind = "status"
             /\ cur'.sent[1].text = status_message
             /\ cur'.calls = Append(cur.calls, "send_message")
       /\ (pc = "except" /\ lastSent.error = "") =>
             /\ Len(cur'.sent) = 1
             /\ cur'.sent[1].kind = "error"
             /\ cur'.sent[1].text = "Sboj v rabote programmy: "
                                    \o ExcStr(error[1])
             /\ cur'.calls = Append(cur.calls, "send_message")]_vars

C18_Witness ==
    /\ CycleDone
    /\ prev.failed
    /\ cur.start_status = "" /\ cur.start_error # ""
    /\ cur.status # <<>>
    /\ Len(cur.sent) = 1 /\ cur.sent[1].text = cur.status[1]

====
